---- MODULE Spec2Model ----
(***************************************************************************)
(* FileSyncQueue (src/hooks/useFileEdit.ts:152-326): the per-path          *)
(* sequential synchronisation queue, with updateFile                       *)
(* (src/convex/files.ts:75-139) as the commit function.                    *)
(*                                                                         *)
(* JavaScript runs one job at a time, so an action is the code that runs   *)
(* between two suspension points: a queueEdit call up to the first await   *)
(* of the drainer it may start, and each continuation of processQueue      *)
(* after `await updateFn`, `await syncFn` and the backoff timer.           *)
(*                                                                         *)
(* Every queueEdit call gets the next identifier; that identifier names    *)
(* the QueueItem (operation + promise), the queue array the call may       *)
(* create, the processQueue invocation the call may start and the pair of  *)
(* closures (updateFn, syncFn) the call supplies.                          *)
(* The queue never inspects a payload, so every call carries a payload of  *)
(* its own, as the callers in src/components/FileSyncTest.tsx:60-62 do     *)
(* (`Content version ${i + 1}`): Payload(id).                              *)
(* SyncOperation.timestamp is written once and never read; it is left out. *)
(***************************************************************************)
EXTENDS Integers, Sequences, FiniteSets, TLC

\* ---- bounds of the model ------------------------------------------------
\* calls to queueEdit
MaxOps == 3
\* updateFn/syncFn calls that throw, over all items
MaxFails == 3
\* calls to queueEdit in the behaviours checked for liveness
MaxLiveOps == 2
\* calls to queueEdit in the behaviours with two full retry sequences
MaxRetryOps == 2
\* updateFn/syncFn calls that throw in those behaviours
MaxRetryFails == 6
\* calls to queueEdit in the behaviours with clear() calls
MaxClearOps == 2
\* the paths of those calls
ClearKeys == {"a"}
\* changes made in the editor
MaxChanges == 3
\* calls to editFile in the behaviours of the useFileEdit hook
MaxHookOps == 3
\* calls to editFile made without a sandbox
MaxRefusals == 2
\* calls to editFile made with a sandbox, while the sandbox comes and goes
MaxNoSandboxOps == 2
\* the paths editFile is called with: the file open in the editor
HookKeys == {"a"}
\* calls to queueEdit in the behaviours with getStatus calls
MaxStatusOps == 2

Keys == {"a", "b"}

Ids == 1..MaxOps

\* the content string passed by the id-th queueEdit call
Payload(id) == id

\* ---- configuration of the queue ------------------------------------------
maxRetries == 3
baseRetryDelay == 1000

\* version carried by the result of a superseded item
SupersededVersion == 0 - 1

\* setTimeout(..., 300)
debounceDelay == 300
\* the step of the editor's clock, in ms
TickMs == 100

\* "no array": the queues map has no entry for the path
NoQueue == 0

VARIABLES
    nextId,      \* identifier of the next queueEdit call
    operation,   \* id -> SyncOperation of a submitted item
    promise,     \* id -> state of the promise queueEdit returned
    queues,      \* path -> identifier of the queue array, or NoQueue
    arrays,      \* array identifier -> the array: sequence of item ids
    processing,  \* path -> "absent" | "true" | "false"
    drainers,    \* id -> the processQueue invocation that call started
    store,       \* path -> file row of the authoritative store
    sandbox,     \* path -> what the last successful syncFn call wrote
    hist,        \* per item: calls made for it and their outcomes
    early,       \* path -> no queueEdit for it ran after a commit returned
    status,      \* what getStatus returned, if the last step was that call
    hook,        \* useFileEdit: the status state of the hook
    calls,       \* useFileEdit: id -> where the editFile call for it stands
    editor,      \* MonacoEditor: its state, its debounce timer and its clock
    sandboxId,   \* useFileEdit: the sandboxId editFile was last created with
    refused      \* useFileEdit: what the editFile calls without sandbox returned

vars == <<nextId, operation, promise, queues, arrays, processing, drainers,
          store, sandbox, hist, early, status, hook, calls, editor,
          sandboxId, refused>>

\* the state of the components: the useFileEdit hook, its editFile calls
\* and the editor
hookVars == <<hook, calls, editor, sandboxId, refused>>

\* the state of the queue, its callers and its collaborators
queueVars == <<nextId, operation, promise, queues, arrays, processing,
               drainers, store, sandbox, hist, early>>

Submitted == 1..(nextId - 1)

\* project?.sandboxId before the sandbox exists and after it is gone
NoSandboxId == "undefined"

\* the sandbox identifiers the project can carry
SandboxIds == {"sbx"}

\* ---- promises ------------------------------------------------------------
\* "no error": the value of a promise that has not been rejected
NoError == [path |-> "", attempts |-> 0, cause |-> ""]

\* lastError: "No sandbox available. Please start the dev server first."
NoSandboxMessage ==
    [path |-> "", attempts |-> 0,
     cause |-> "No sandbox available. Please start the dev server first."]

PendingPromise ==
    [state |-> "pending", version |-> 0, settles |-> 0, error |-> NoError]

\* item.resolve({ success: true, version }): only the first settle counts
Resolve(p, v) ==
    [state   |-> IF p.state = "pending" THEN "fulfilled" ELSE p.state,
     version |-> IF p.state = "pending" THEN v ELSE p.version,
     settles |-> p.settles + 1,
     error   |-> p.error]

\* item.reject(new Error(...))
Reject(p, err) ==
    [state   |-> IF p.state = "pending" THEN "rejected" ELSE p.state,
     version |-> p.version,
     settles |-> p.settles + 1,
     error   |-> IF p.state = "pending" THEN err ELSE p.error]

\* what updateFn and syncFn can throw: an Error with a message of their own
\* (updateFile: src/convex/files.ts:83) or a value that is not an Error
NonError == [isError |-> FALSE, message |-> ""]
ThrownBy(phase) ==
    IF phase = "commit"
    THEN {[isError |-> TRUE, message |-> "Not authenticated"], NonError}
    ELSE {[isError |-> TRUE, message |-> "Sandbox write failed"], NonError}

\* error instanceof Error ? error.message : "Unknown error"
ErrorMessage(e) == IF e.isError THEN e.message ELSE "Unknown error"

\* `Failed to sync ${path} after ${this.maxRetries} attempts: ${...}`
TerminalError(path, e) ==
    [path |-> path, attempts |-> maxRetries, cause |-> ErrorMessage(e)]

RECURSIVE RejectAll(_, _, _)
\* the removed items rejected, as the comment at line 196 announces
RejectAll(pr, items, v) ==
    IF items = <<>> THEN pr
    ELSE RejectAll([pr EXCEPT ![Head(items)] = Reject(@, NoError)],
                   Tail(items), v)

RECURSIVE ResolveAll(_, _, _)
\* itemsToReject.forEach((item) => item.resolve({success: true, version: -1}))
ResolveAll(pr, items, v) ==
    IF items = <<>> THEN pr
    ELSE ResolveAll([pr EXCEPT ![Head(items)] = Resolve(@, v)], Tail(items), v)

\* ---- pieces of queueEdit -------------------------------------------------
\* one flag for the whole queue in place of one per path
IsProcessingAny(proc, path) == \E k \in DOMAIN proc : proc[k] = "true"

\* this.processing.get(path) || false
IsProcessing(proc, path) == proc[path] = "true"

\* splice(0) in both branches: the item in flight leaves the array too
SpliceKeptNone(q, isProcessing) == <<>>

\* slice() in place of splice(): the items are resolved but stay queued
SliceKept(q, isProcessing) == q

\* splice(2) in place of splice(1): one waiting item survives
SpliceKeptTwo(q, isProcessing) ==
    IF Len(q) > 0
    THEN IF isProcessing
         THEN SubSeq(q, 1, IF Len(q) < 2 THEN Len(q) ELSE 2)
         ELSE <<>>
    ELSE q

\* what queue.splice(1) / queue.splice(0) leaves in the array
SpliceKept(q, isProcessing) ==
    IF Len(q) > 0
    THEN IF isProcessing THEN SubSeq(q, 1, 1) ELSE <<>>
    ELSE q

\* the items to resolve taken from index 0 also while one is in flight
SpliceRemovedAll(q, isProcessing) == q

\* what queue.splice(1) / queue.splice(0) returns: itemsToReject
SpliceRemoved(q, isProcessing) ==
    IF Len(q) > 0
    THEN IF isProcessing THEN SubSeq(q, 2, Len(q)) ELSE q
    ELSE <<>>

\* queue.unshift(...) in place of queue.push(...)
PushFront(q, id) == <<id>> \o q

\* queue.push({ operation, resolve, reject })
Push(q, id) == Append(q, id)

\* processQueue is not called from queueEdit
StartsDrainerNever(proc, path) == FALSE

\* the check on the processing flag forgotten: every call starts a drainer
StartsDrainerAlways(proc, path) == TRUE

\* the flag compared with `=== false`: a missing entry starts nothing
StartsDrainerStrict(proc, path) == proc[path] = "false"

\* if (!this.processing.get(path)) this.processQueue(...)
StartsDrainer(proc, path) == ~IsProcessing(proc, path)

\* ---- pieces of processQueue ----------------------------------------------
IdleDrainer ==
    [pc |-> "idle", path |-> "", fn |-> 0, queue |-> NoQueue, item |-> 0,
     version |-> 0, delay |-> 0]

\* `>` in place of `>=`: one attempt too many
RetriesExhaustedLate(retries) == retries > maxRetries

\* gives up one attempt early
RetriesExhaustedEarly(retries) == retries >= maxRetries - 1

\* item.operation.retries >= this.maxRetries
RetriesExhausted(retries) == retries >= maxRetries

\* Math.pow(2, retries) in place of Math.pow(2, retries - 1)
BackoffDelayLate(retries) == baseRetryDelay * 2 ^ retries

\* this.baseRetryDelay * Math.pow(2, item.operation.retries - 1)
BackoffDelay(retries) == baseRetryDelay * 2 ^ (retries - 1)

NoFile == [content |-> 0, version |-> 0]

\* updateFile: version 1 on create, previous version + 1 on update
UpdateFile(row, content) ==
    IF row.version > 0
    THEN [content |-> content, version |-> row.version + 1]
    ELSE [content |-> content, version |-> 1]

NoHist ==
    [commitCalls |-> 0, syncCalls |-> 0, commitFails |-> 0, syncFails |-> 0,
     commitFns |-> {}, syncFns |-> {}, committed |-> 0,
     syncArgs |-> [content |-> 0, version |-> 0], failedIn |-> "none",
     failedWith |-> NonError, waits |-> <<>>]

\* the version of the row before the update passed on
SyncArgsStale(op, version) == [content |-> op.content, version |-> version - 1]

\* syncFn(item.operation.path, item.operation.content, version)
SyncArgs(op, version) == [content |-> op.content, version |-> version]

\* this.processing.clear() in place of this.processing.delete(path)
LoopTopClearsAll(d, p, f, a, arrs, proc, qs, drs, h) ==
    IF Len(arrs[a]) > 0
    THEN LET item == Head(arrs[a]) IN
         /\ drainers' = [drs EXCEPT ![d] =
                [pc |-> "commit", path |-> p, fn |-> f, queue |-> a,
                 item |-> item, version |-> 0, delay |-> 0]]
         /\ hist' = [h EXCEPT ![item].commitCalls = @ + 1,
                              ![item].commitFns = @ \cup {f}]
         /\ arrays' = arrs
         /\ processing' = proc
         /\ queues' = qs
    ELSE /\ drainers' = [drs EXCEPT ![d] = IdleDrainer]
         /\ hist' = h
         /\ arrays' = arrs
         /\ processing' = [k \in DOMAIN proc |-> "absent"]
         /\ queues' = [qs EXCEPT ![p] = NoQueue]

\* the flag set to false and the clean-up of lines 288-291 left out
LoopTopKeepsEntry(d, p, f, a, arrs, proc, qs, drs, h) ==
    IF Len(arrs[a]) > 0
    THEN LET item == Head(arrs[a]) IN
         /\ drainers' = [drs EXCEPT ![d] =
                [pc |-> "commit", path |-> p, fn |-> f, queue |-> a,
                 item |-> item, version |-> 0, delay |-> 0]]
         /\ hist' = [h EXCEPT ![item].commitCalls = @ + 1,
                              ![item].commitFns = @ \cup {f}]
         /\ arrays' = arrs
         /\ processing' = proc
         /\ queues' = qs
    ELSE /\ drainers' = [drs EXCEPT ![d] = IdleDrainer]
         /\ hist' = h
         /\ arrays' = arrs
         /\ processing' = [proc EXCEPT ![p] = "false"]
         /\ queues' = qs

\* this.queues.get(path) read again at every turn of the loop: a drainer
\* whose array has left the map takes the `if (!queue)` return
LoopTopRereads(d, p, f, a, arrs, proc, qs, drs, h) ==
    IF qs[p] = a /\ Len(arrs[a]) > 0
    THEN LET item == Head(arrs[a]) IN
         /\ drainers' = [drs EXCEPT ![d] =
                [pc |-> "commit", path |-> p, fn |-> f, queue |-> a,
                 item |-> item, version |-> 0, delay |-> 0]]
         /\ hist' = [h EXCEPT ![item].commitCalls = @ + 1,
                              ![item].commitFns = @ \cup {f}]
         /\ arrays' = arrs
         /\ processing' = proc
         /\ queues' = qs
    ELSE /\ drainers' = [drs EXCEPT ![d] = IdleDrainer]
         /\ hist' = h
         /\ arrays' = arrs
         /\ processing' = [proc EXCEPT ![p] =
                              IF qs[p] = a THEN "absent" ELSE "false"]
         /\ queues' = [qs EXCEPT ![p] = IF qs[p] = a THEN NoQueue ELSE @]

\* the head of `while (queue.length > 0)` and what follows the loop, run by
\* the processQueue invocation d (path p, functions f, array a) on the
\* values the step has computed so far
LoopTop(d, p, f, a, arrs, proc, qs, drs, h) ==
    IF Len(arrs[a]) > 0
    THEN LET item == Head(arrs[a]) IN
         /\ drainers' = [drs EXCEPT ![d] =
                [pc |-> "commit", path |-> p, fn |-> f, queue |-> a,
                 item |-> item, version |-> 0, delay |-> 0]]
         /\ hist' = [h EXCEPT ![item].commitCalls = @ + 1,
                              ![item].commitFns = @ \cup {f}]
         /\ arrays' = arrs
         /\ processing' = proc
         /\ queues' = qs
    ELSE /\ drainers' = [drs EXCEPT ![d] = IdleDrainer]
         /\ hist' = h
         /\ arrays' = arrs
         /\ processing' = [proc EXCEPT ![p] = "absent"]
         /\ queues' = [qs EXCEPT ![p] = NoQueue]

\* ---- getStatus --------------------------------------------------------------
\* "no result": the last step was not a getStatus call
NoStatus ==
    [queuedFiles |-> {}, processingFiles |-> {},
     totalPendingOperations |-> 0 - 1]

RECURSIVE SumLengths(_, _, _)
\* Array.from(this.queues.values()).reduce((sum, q) => sum + q.length, 0)
SumLengths(qs, arrs, keys) ==
    IF keys = {} THEN 0
    ELSE LET k == CHOOSE x \in keys : TRUE IN
         Len(arrs[qs[k]]) + SumLengths(qs, arrs, keys \ {k})

\* the reduce counts the arrays, not their items
StatusOfCountsQueues(qs, arrs, proc) ==
    [queuedFiles |-> {k \in DOMAIN qs : qs[k] # NoQueue},
     processingFiles |-> {k \in DOMAIN proc : proc[k] = "true"},
     totalPendingOperations |->
         Cardinality({k \in DOMAIN qs : qs[k] # NoQueue})]

\* the value getStatus returns; the two arrays of paths are taken as sets
StatusOf(qs, arrs, proc) ==
    [queuedFiles |-> {k \in DOMAIN qs : qs[k] # NoQueue},
     processingFiles |-> {k \in DOMAIN proc : proc[k] = "true"},
     totalPendingOperations |->
         SumLengths(qs, arrs, {k \in DOMAIN qs : qs[k] # NoQueue})]

\* ---- MonacoEditor ------------------------------------------------------------
\* the value of an onChange event that carries none
Undefined == 0

\* debounceTimerRef.current === null
NoTimer == [state |-> "null", left |-> 0, value |-> Undefined]

\* the component after its first render; changes, sinceChange, bursts and
\* log are ghosts: the number of changes handled, the ms since the last of
\* them, their grouping into bursts and the onChangeAction calls made
NewEditor ==
    [mounted |-> TRUE, localContent |-> Undefined, timer |-> NoTimer,
     changes |-> 0, sinceChange |-> debounceDelay, bursts |-> <<>>,
     log |-> <<>>]

\* the bursts after change n: it extends the last burst when it comes less
\* than debounceDelay after the change before it, else it starts a burst
BurstsAfter(e, n) ==
    IF e.bursts # <<>> /\ e.sinceChange < debounceDelay
    THEN [e.bursts EXCEPT ![Len(e.bursts)].last = n]
    ELSE Append(e.bursts, [first |-> n, last |-> n])

\* a timer that is running is left alone: no clearTimeout, no new timer
TimerAfterChangeKept(e, value) ==
    IF e.timer.state = "pending" THEN e.timer
    ELSE [state |-> "pending", left |-> debounceDelay, value |-> value]

\* clearTimeout(debounceTimerRef.current); debounceTimerRef.current =
\* setTimeout(() => onChangeAction(value), 300)
TimerAfterChange(e, value) ==
    [state |-> "pending", left |-> debounceDelay, value |-> value]

\* ---- the state after construction ---------------------------------------
Init ==
    /\ nextId = 1
    /\ operation = <<>>
    /\ promise = <<>>
    /\ queues = [k \in Keys |-> NoQueue]
    /\ arrays = [i \in Ids |-> <<>>]
    /\ processing = [k \in Keys |-> "absent"]
    /\ drainers = [i \in Ids |-> IdleDrainer]
    /\ store = [k \in Keys |-> NoFile]
    /\ sandbox = [k \in Keys |-> NoFile]
    /\ hist = <<>>
    /\ early = [k \in Keys |-> TRUE]
    /\ status = NoStatus
    /\ hook = [isEditing |-> FALSE, pendingEdits |-> 0, lastError |-> NoError]
    /\ calls = [i \in Ids |-> "none"]
    /\ editor = NewEditor
    /\ sandboxId = NoSandboxId
    /\ refused = <<>>

\* ---- queueEdit(path, content, updateFn, syncFn) --------------------------
\* The whole promise executor, and, when it starts processQueue, that call up
\* to its first await: processing.set(path, true), the lookup of the array
\* (just stored, so the `if (!queue)` return at lines 235-238 is not taken)
\* and the first updateFn call.
QueueEditCall(path) ==
    /\ nextId <= MaxOps
    /\ LET id    == nextId
           a     == IF queues[path] = NoQueue THEN id ELSE queues[path]
           qs    == [queues EXCEPT ![path] = a]
           q     == arrays[a]
           isP   == IsProcessing(processing, path)
           kept  == SpliceKept(q, isP)
           gone  == SpliceRemoved(q, isP)
           arrs  == [arrays EXCEPT ![a] = Push(kept, id)]
           pr    == ResolveAll(promise @@ (id :> PendingPromise), gone,
                               SupersededVersion)
           h     == hist @@ (id :> NoHist)
       IN
       /\ nextId' = id + 1
       /\ operation' = operation @@
              (id :> [path |-> path, content |-> Payload(id), retries |-> 0])
       /\ promise' = pr
       /\ early' = [early EXCEPT ![path] = @ /\ store[path].version = 0]
       /\ status' = NoStatus
       /\ UNCHANGED <<store, sandbox>>
       /\ IF StartsDrainer(processing, path)
          THEN LoopTop(id, path, id, a, arrs,
                       [processing EXCEPT ![path] = "true"], qs, drainers, h)
          ELSE /\ arrays' = arrs
               /\ queues' = qs
               /\ hist' = h
               /\ UNCHANGED <<processing, drainers>>

\* queueEdit called on the queue directly
QueueEdit(path) == QueueEditCall(path) /\ UNCHANGED hookVars

\* ---- processQueue: `await updateFn(...)` returns { version } -------------
CommitOk(d) ==
    /\ drainers[d].pc = "commit"
    /\ LET dr   == drainers[d]
           item == dr.item
           row  == UpdateFile(store[dr.path], operation[item].content)
       IN
       /\ store' = [store EXCEPT ![dr.path] = row]
       /\ drainers' = [drainers EXCEPT ![d].pc = "sync",
                                       ![d].version = row.version]
       /\ hist' = [hist EXCEPT ![item].syncCalls = @ + 1,
                               ![item].syncFns = @ \cup {dr.fn},
                               ![item].committed = row.version,
                               ![item].syncArgs =
                                   SyncArgs(operation[item], row.version)]
       /\ status' = NoStatus
       /\ UNCHANGED hookVars
       /\ UNCHANGED <<nextId, operation, promise, queues, arrays, processing,
                      sandbox, early>>

\* ---- processQueue: the catch block ---------------------------------------
\* giving up on an item empties the whole array: queue.length = 0
FailureDropsLane(d, h, e, phase) ==
    LET dr      == drainers[d]
        item    == dr.item
        retries == operation[item].retries + 1
        ops     == [operation EXCEPT ![item].retries = retries]
    IN
    /\ operation' = ops
    /\ status' = NoStatus
    /\ UNCHANGED hookVars
    /\ UNCHANGED <<nextId, store, sandbox, early>>
    /\ IF RetriesExhausted(retries)
       THEN /\ promise' = [promise EXCEPT ![item] =
                                Reject(@, TerminalError(dr.path, e))]
            /\ LoopTop(d, dr.path, dr.fn, dr.queue,
                       [arrays EXCEPT ![dr.queue] = <<>>],
                       processing, queues, drainers,
                       [h EXCEPT ![item].failedIn = phase,
                                 ![item].failedWith = e])
       ELSE /\ drainers' = [drainers EXCEPT ![d].pc = "backoff",
                                            ![d].delay = BackoffDelay(retries)]
            /\ hist' = [h EXCEPT ![item].waits =
                                     Append(@, BackoffDelay(retries))]
            /\ UNCHANGED <<promise, queues, arrays, processing>>

\* retries++ only for a failed updateFn: a failed syncFn is retried for free
FailureCommitOnly(d, h, e, phase) ==
    LET dr      == drainers[d]
        item    == dr.item
        retries == operation[item].retries + (IF phase = "commit" THEN 1 ELSE 0)
        ops     == [operation EXCEPT ![item].retries = retries]
    IN
    /\ operation' = ops
    /\ status' = NoStatus
    /\ UNCHANGED hookVars
    /\ UNCHANGED <<nextId, store, sandbox, early>>
    /\ IF RetriesExhausted(retries)
       THEN /\ promise' = [promise EXCEPT ![item] =
                                Reject(@, TerminalError(dr.path, e))]
            /\ LoopTop(d, dr.path, dr.fn, dr.queue,
                       [arrays EXCEPT ![dr.queue] = Tail(@)],
                       processing, queues, drainers,
                       [h EXCEPT ![item].failedIn = phase,
                                 ![item].failedWith = e])
       ELSE /\ drainers' = [drainers EXCEPT ![d].pc = "backoff",
                                            ![d].delay = BackoffDelay(operation[item].retries + 1)]
            /\ hist' = [h EXCEPT ![item].waits =
                                     Append(@, BackoffDelay(operation[item].retries + 1))]
            /\ UNCHANGED <<promise, queues, arrays, processing>>

\* e is the value caught, phase the call that threw it
Failure(d, h, e, phase) ==
    LET dr      == drainers[d]
        item    == dr.item
        retries == operation[item].retries + 1
        ops     == [operation EXCEPT ![item].retries = retries]
    IN
    /\ operation' = ops
    /\ status' = NoStatus
    /\ UNCHANGED hookVars
    /\ UNCHANGED <<nextId, store, sandbox, early>>
    /\ IF RetriesExhausted(retries)
       THEN /\ promise' = [promise EXCEPT ![item] =
                                Reject(@, TerminalError(dr.path, e))]
            /\ LoopTop(d, dr.path, dr.fn, dr.queue,
                       [arrays EXCEPT ![dr.queue] = Tail(@)],
                       processing, queues, drainers,
                       [h EXCEPT ![item].failedIn = phase,
                                 ![item].failedWith = e])
       ELSE /\ drainers' = [drainers EXCEPT ![d].pc = "backoff",
                                            ![d].delay = BackoffDelay(retries)]
            /\ hist' = [h EXCEPT ![item].waits =
                                     Append(@, BackoffDelay(retries))]
            /\ UNCHANGED <<promise, queues, arrays, processing>>

RECURSIVE Failures(_, _)
\* the number of updateFn/syncFn calls that have thrown for items 1..n
Failures(h, n) ==
    IF n = 0 THEN 0
    ELSE h[n].commitFails + h[n].syncFails + Failures(h, n - 1)

\* `await updateFn(...)` throws
CommitFail(d) ==
    /\ drainers[d].pc = "commit"
    /\ Failures(hist, nextId - 1) < MaxFails
    /\ \E e \in ThrownBy("commit") :
           Failure(d, [hist EXCEPT ![drainers[d].item].commitFails = @ + 1],
                   e, "commit")

\* `await syncFn(...)` throws
SyncFail(d) ==
    /\ drainers[d].pc = "sync"
    /\ Failures(hist, nextId - 1) < MaxFails
    /\ \E e \in ThrownBy("sync") :
           Failure(d, [hist EXCEPT ![drainers[d].item].syncFails = @ + 1],
                   e, "sync")

\* ---- processQueue: `await syncFn(...)` returns ---------------------------
SyncOk(d) ==
    /\ drainers[d].pc = "sync"
    /\ LET dr   == drainers[d]
           item == dr.item
       IN
       /\ sandbox' = [sandbox EXCEPT ![dr.path] =
              [content |-> operation[item].content, version |-> dr.version]]
       /\ promise' = [promise EXCEPT ![item] = Resolve(@, dr.version)]
       /\ LoopTop(d, dr.path, dr.fn, dr.queue,
                  [arrays EXCEPT ![dr.queue] = Tail(@)],
                  processing, queues, drainers, hist)
       /\ status' = NoStatus
       /\ UNCHANGED hookVars
       /\ UNCHANGED <<nextId, operation, store, early>>

\* ---- processQueue: the backoff timer fires -------------------------------
\* only the phase that failed is retried: after a failed syncFn the loop
\* calls syncFn again with the version it already has
BackoffExpireResumes(d) ==
    /\ drainers[d].pc = "backoff"
    /\ LET dr == drainers[d] IN
       IF dr.version > 0
       THEN /\ drainers' = [drainers EXCEPT ![d].pc = "sync"]
            /\ hist' = [hist EXCEPT ![dr.item].syncCalls = @ + 1]
            /\ UNCHANGED <<arrays, processing, queues>>
       ELSE LoopTop(d, dr.path, dr.fn, dr.queue, arrays, processing, queues,
                    drainers, hist)
    /\ status' = NoStatus
    /\ UNCHANGED hookVars
    /\ UNCHANGED <<nextId, operation, promise, store, sandbox, early>>

BackoffExpire(d) ==
    /\ drainers[d].pc = "backoff"
    /\ LET dr == drainers[d] IN
       LoopTop(d, dr.path, dr.fn, dr.queue, arrays, processing, queues,
               drainers, hist)
    /\ status' = NoStatus
    /\ UNCHANGED hookVars
    /\ UNCHANGED <<nextId, operation, promise, store, sandbox, early>>

Next ==
    \/ \E path \in Keys : QueueEdit(path)
    \/ \E d \in Ids : CommitOk(d)
    \/ \E d \in Ids : CommitFail(d)
    \/ \E d \in Ids : SyncOk(d)
    \/ \E d \in Ids : SyncFail(d)
    \/ \E d \in Ids : BackoffExpire(d)

Spec == Init /\ [][Next]_vars

\* ---- liveness: every updateFn/syncFn call returns or throws and every ----
\* ---- backoff timer fires, so a drainer that can take a step takes one ----
Drain ==
    \E d \in Ids : \/ CommitOk(d) \/ CommitFail(d)
                   \/ SyncOk(d) \/ SyncFail(d)
                   \/ BackoffExpire(d)

LiveQueueEdit(path) == nextId <= MaxLiveOps /\ QueueEdit(path)

LiveNext ==
    \/ \E path \in Keys : LiveQueueEdit(path)
    \/ \E d \in Ids : CommitOk(d)
    \/ \E d \in Ids : CommitFail(d)
    \/ \E d \in Ids : SyncOk(d)
    \/ \E d \in Ids : SyncFail(d)
    \/ \E d \in Ids : BackoffExpire(d)

FairSpec == Init /\ [][LiveNext]_vars /\ WF_vars(Drain)

\* ---- few submissions, enough failures for two operations to use up ---------
\* ---- their retries ------------------------------------------------------------
RetryQueueEdit(path) == nextId <= MaxRetryOps /\ QueueEdit(path)

\* `await updateFn(...)` throws
RetryCommitFail(d) ==
    /\ drainers[d].pc = "commit"
    /\ Failures(hist, nextId - 1) < MaxRetryFails
    /\ \E e \in ThrownBy("commit") :
           Failure(d, [hist EXCEPT ![drainers[d].item].commitFails = @ + 1],
                   e, "commit")

\* `await syncFn(...)` throws
RetrySyncFail(d) ==
    /\ drainers[d].pc = "sync"
    /\ Failures(hist, nextId - 1) < MaxRetryFails
    /\ \E e \in ThrownBy("sync") :
           Failure(d, [hist EXCEPT ![drainers[d].item].syncFails = @ + 1],
                   e, "sync")

RetryNext ==
    \/ \E path \in Keys : RetryQueueEdit(path)
    \/ \E d \in Ids : CommitOk(d)
    \/ \E d \in Ids : RetryCommitFail(d)
    \/ \E d \in Ids : SyncOk(d)
    \/ \E d \in Ids : RetrySyncFail(d)
    \/ \E d \in Ids : BackoffExpire(d)

RetrySpec == Init /\ [][RetryNext]_vars

\* ---- the useFileEdit hook: every queueEdit call is made by editFile ---------
\* error instanceof Error ? error.message : "Failed to edit file"; the queue
\* rejects with `new Error(...)` only, whose message is the record kept in
\* the promise
LastErrorOf(p) == p.error

\* Math.max(0, prev.pendingEdits - 1)
PendingAfter(n) == IF n - 1 > 0 THEN n - 1 ELSE 0

\* the flag is lowered one return late: prev.pendingEdits <= 0
EditingAfterLate(n) == ~(n <= 0)

\* prev.pendingEdits <= 1 ? false : true
EditingAfter(n) == ~(n <= 1)

\* the component renders again with another project.sandboxId: the sandbox
\* was created, or was stopped
SandboxChange(id) ==
    /\ id # sandboxId
    /\ sandboxId' = id
    /\ status' = NoStatus
    /\ UNCHANGED <<queueVars, hook, calls, editor, refused>>

\* the sandbox test comes after the first setStatus: the refused call is
\* counted as pending
EditFileNoSandboxCounted(path) ==
    /\ sandboxId = NoSandboxId
    /\ Len(refused) < MaxRefusals
    /\ hook' = [isEditing |-> TRUE,
                pendingEdits |-> hook.pendingEdits + 1,
                lastError |-> NoSandboxMessage]
    /\ refused' = Append(refused, FALSE)
    /\ status' = NoStatus
    /\ UNCHANGED <<queueVars, calls, editor, sandboxId>>

\* editFile(path, content) without a sandboxId: `if (!sandboxId) { ... }`;
\* refused is a ghost, the values these calls returned
EditFileNoSandbox(path) ==
    /\ sandboxId = NoSandboxId
    /\ Len(refused) < MaxRefusals
    /\ hook' = [hook EXCEPT !.lastError = NoSandboxMessage]
    /\ refused' = Append(refused, FALSE)
    /\ status' = NoStatus
    /\ UNCHANGED <<queueVars, calls, editor, sandboxId>>

\* editFile(path, content) with a sandboxId, up to
\* `await fileSyncQueue.queueEdit(...)`
EditFile(path) ==
    /\ sandboxId # NoSandboxId
    /\ nextId <= MaxHookOps
    /\ QueueEditCall(path)
    /\ hook' = [isEditing |-> TRUE,
                pendingEdits |-> hook.pendingEdits + 1,
                lastError |-> NoError]
    /\ calls' = [calls EXCEPT ![nextId] = "awaiting"]
    /\ UNCHANGED <<editor, sandboxId, refused>>

\* the catch block of editFile also for a result that is not an error
EditFileResumeLoud(id) ==
    /\ calls[id] = "awaiting"
    /\ promise[id].state # "pending"
    /\ IF promise[id].state = "fulfilled" /\ promise[id].version >= 1
       THEN /\ hook' = [hook EXCEPT
                            !.isEditing = EditingAfter(hook.pendingEdits),
                            !.pendingEdits = PendingAfter(hook.pendingEdits)]
            /\ calls' = [calls EXCEPT ![id] = "true"]
       ELSE /\ hook' = [isEditing |-> EditingAfter(hook.pendingEdits),
                        pendingEdits |-> PendingAfter(hook.pendingEdits),
                        lastError |-> LastErrorOf(promise[id])]
            /\ calls' = [calls EXCEPT ![id] = "false"]
    /\ status' = NoStatus
    /\ UNCHANGED <<queueVars, editor, sandboxId, refused>>

\* editFile after the await: the promise of call id is settled
EditFileResume(id) ==
    /\ calls[id] = "awaiting"
    /\ promise[id].state # "pending"
    /\ IF promise[id].state = "fulfilled"
       THEN /\ hook' = [hook EXCEPT
                            !.isEditing = EditingAfter(hook.pendingEdits),
                            !.pendingEdits = PendingAfter(hook.pendingEdits)]
            /\ calls' = [calls EXCEPT ![id] = "true"]
       ELSE /\ hook' = [isEditing |-> EditingAfter(hook.pendingEdits),
                        pendingEdits |-> PendingAfter(hook.pendingEdits),
                        lastError |-> LastErrorOf(promise[id])]
            /\ calls' = [calls EXCEPT ![id] = "false"]
    /\ status' = NoStatus
    /\ UNCHANGED <<queueVars, editor, sandboxId, refused>>

\* clearError()
ClearError ==
    /\ hook.lastError # NoError
    /\ hook' = [hook EXCEPT !.lastError = NoError]
    /\ status' = NoStatus
    /\ UNCHANGED <<calls, queueVars, editor, sandboxId, refused>>

\* the sandbox is created and then stays
HookNext ==
    \/ \E id \in SandboxIds : SandboxChange(id)
    \/ \E path \in HookKeys : EditFileNoSandbox(path)
    \/ \E path \in HookKeys : EditFile(path)
    \/ \E id \in Ids : EditFileResume(id)
    \/ ClearError
    \/ \E d \in Ids : CommitOk(d)
    \/ \E d \in Ids : CommitFail(d)
    \/ \E d \in Ids : SyncOk(d)
    \/ \E d \in Ids : SyncFail(d)
    \/ \E d \in Ids : BackoffExpire(d)

HookSpec == Init /\ [][HookNext]_vars

\* ---- the hook while the sandbox comes and goes ------------------------------
NoSandboxEditFile(path) == nextId <= MaxNoSandboxOps /\ EditFile(path)

NoSandboxNext ==
    \/ \E id \in SandboxIds \cup {NoSandboxId} : SandboxChange(id)
    \/ \E path \in HookKeys : EditFileNoSandbox(path)
    \/ \E path \in HookKeys : NoSandboxEditFile(path)
    \/ \E id \in Ids : EditFileResume(id)
    \/ ClearError
    \/ \E d \in Ids : CommitOk(d)
    \/ \E d \in Ids : CommitFail(d)
    \/ \E d \in Ids : SyncOk(d)
    \/ \E d \in Ids : SyncFail(d)
    \/ \E d \in Ids : BackoffExpire(d)

NoSandboxSpec == Init /\ [][NoSandboxNext]_vars

\* ---- the queue with clear() ----------------------------------------------------
\* clear(): this.queues.clear(); this.processing.clear()
Clear ==
    /\ queues' = [k \in Keys |-> NoQueue]
    /\ processing' = [k \in Keys |-> "absent"]
    /\ status' = NoStatus
    /\ UNCHANGED hookVars
    /\ UNCHANGED <<nextId, operation, promise, arrays, drainers, store,
                   sandbox, hist, early>>

ClearQueueEdit(path) == nextId <= MaxClearOps /\ QueueEdit(path)

ClearNext ==
    \/ \E path \in ClearKeys : ClearQueueEdit(path)
    \/ Clear
    \/ \E d \in Ids : CommitOk(d)
    \/ \E d \in Ids : CommitFail(d)
    \/ \E d \in Ids : SyncOk(d)
    \/ \E d \in Ids : SyncFail(d)
    \/ \E d \in Ids : BackoffExpire(d)

ClearSpec == Init /\ [][ClearNext]_vars

\* every updateFn/syncFn call returns or throws and every backoff timer fires
FairClearSpec == Init /\ [][ClearNext]_vars /\ WF_vars(Drain)

\* ---- MonacoEditor: the debounced onChange ---------------------------------------
\* handleEditorChange(value); the n-th change that carries a value carries n
HandleEditorChange(value) ==
    /\ editor.mounted
    /\ IF value = Undefined
       THEN editor' = editor
       ELSE /\ editor.changes < MaxChanges
            /\ value = editor.changes + 1
            /\ editor' = [editor EXCEPT
                             !.localContent = value,
                             !.timer = TimerAfterChange(editor, value),
                             !.changes = value,
                             !.sinceChange = 0,
                             !.bursts = BurstsAfter(editor, value)]
    /\ UNCHANGED <<queueVars, status, hook, calls, sandboxId, refused>>

\* the timer's delay has passed and its callback has not run yet
TimerDue == editor.timer.state = "pending" /\ editor.timer.left = 0

\* a timer that is due runs before a change that arrives after it is handled
TimelyChange(value) == ~TimerDue /\ HandleEditorChange(value)

\* TickMs pass; time does not pass a timer that is due
Tick ==
    /\ ~TimerDue
    /\ editor' = [editor EXCEPT
                     !.timer.left = IF editor.timer.state = "pending"
                                    THEN @ - TickMs ELSE @,
                     !.sinceChange = IF @ + TickMs < debounceDelay
                                     THEN @ + TickMs ELSE debounceDelay]
    /\ UNCHANGED <<queueVars, status, hook, calls, sandboxId, refused>>

\* the timer callback: onChangeAction(value); the ref keeps the handle
TimerFire ==
    /\ TimerDue
    /\ editor' = [editor EXCEPT
                     !.timer.state = "fired",
                     !.log = Append(@, [value |-> editor.timer.value,
                                        latest |-> editor.changes,
                                        quiet |-> editor.sinceChange,
                                        mounted |-> editor.mounted])]
    /\ UNCHANGED <<queueVars, status, hook, calls, sandboxId, refused>>

\* the cleanup of the effect: clearTimeout of the timer in the ref
Unmount ==
    /\ editor.mounted
    /\ editor' = [editor EXCEPT
                     !.mounted = FALSE,
                     !.timer.state = IF @ = "pending" THEN "cleared" ELSE @]
    /\ UNCHANGED <<queueVars, status, hook, calls, sandboxId, refused>>

EditorNext ==
    \/ \E value \in 0..MaxChanges : TimelyChange(value)
    \/ Tick
    \/ TimerFire
    \/ Unmount

EditorSpec == Init /\ [][EditorNext]_vars

\* ---- the queue with its observer -------------------------------------------
\* the lengths read with splice(0), which empties the arrays
GetStatusConsuming ==
    /\ status' = StatusOf(queues, arrays, processing)
    /\ UNCHANGED hookVars
    /\ arrays' = [a \in DOMAIN arrays |->
                     IF \E k \in Keys : queues[k] = a THEN <<>> ELSE arrays[a]]
    /\ UNCHANGED <<nextId, operation, promise, queues, processing, drainers,
                   store, sandbox, hist, early>>

\* getStatus()
GetStatus ==
    /\ status' = StatusOf(queues, arrays, processing)
    /\ UNCHANGED hookVars
    /\ UNCHANGED queueVars

StatusQueueEdit(path) == nextId <= MaxStatusOps /\ QueueEdit(path)

StatusNext ==
    \/ \E path \in Keys : StatusQueueEdit(path)
    \/ \E d \in Ids : CommitOk(d)
    \/ \E d \in Ids : CommitFail(d)
    \/ \E d \in Ids : SyncOk(d)
    \/ \E d \in Ids : SyncFail(d)
    \/ \E d \in Ids : BackoffExpire(d)
    \/ GetStatus

StatusSpec == Init /\ [][StatusNext]_vars


\* ---- properties ----------------------------------------------------------
Range(q) == {q[i] : i \in 1..Len(q)}

\* the processQueue invocations that are running for a path
ActiveDrainers(k) == {d \in Ids : drainers[d].pc # "idle" /\ drainers[d].path = k}

OpsOn(k) == {o \in Submitted : operation[o].path = k}

Settled(o) == o \in Submitted /\ promise[o].state # "pending"
Superseded(o) ==
    /\ o \in Submitted
    /\ promise[o].state = "fulfilled"
    /\ promise[o].version = SupersededVersion
Succeeded(o) ==
    /\ o \in Submitted
    /\ promise[o].state = "fulfilled"
    /\ promise[o].version >= 1
Rejected(o) == o \in Submitted /\ promise[o].state = "rejected"

\* C1: per-key mutual exclusion. In every reachable state a path has at most
\* one running processQueue invocation; each invocation is suspended at
\* exactly one of `await updateFn`, `await syncFn` or the backoff timer, so
\* a path has at most one outstanding commit, propagate or backoff wait.
C1_MutualExclusion ==
    \A k \in Keys :
        /\ Cardinality(ActiveDrainers(k)) <= 1
        /\ \A d \in ActiveDrainers(k) :
               drainers[d].pc \in {"commit", "sync", "backoff"}

\* a second call for a path arrived while its drainer was running
C1_Witness ==
    \E k \in Keys :
        /\ queues[k] # NoQueue
        /\ Len(arrays[queues[k]]) = 2
        /\ Cardinality(ActiveDrainers(k)) = 1

\* C2: every promise is settled at most once, as success with a committed
\* version, as success with the superseded sentinel, or as a rejection; a
\* settled item is in no queue array and is no drainer's current item.
C2_SettledOnce ==
    \A o \in Submitted :
        /\ promise[o].settles <= 1
        /\ (promise[o].settles = 1) <=> (promise[o].state # "pending")
        /\ Settled(o) => Succeeded(o) \/ Superseded(o) \/ Rejected(o)
        /\ Settled(o) =>
               /\ \A a \in Ids : o \notin Range(arrays[a])
               /\ \A d \in Ids : drainers[d].pc # "idle" => drainers[d].item # o

\* the three outcomes have all occurred
C2_Witness ==
    /\ \E o \in Submitted : Succeeded(o)
    /\ \E o \in Submitted : Superseded(o)
    /\ \E o \in Submitted : Rejected(o)

Drained(k) == queues[k] = NoQueue /\ ActiveDrainers(k) = {}

\* the last queueEdit call for a path
LastOn(k) == CHOOSE o \in OpsOn(k) : \A p \in OpsOn(k) : p <= o

\* no updateFn/syncFn call for an item of the path has thrown
NoFailures(k) ==
    \A o \in OpsOn(k) : hist[o].commitFails = 0 /\ hist[o].syncFails = 0

\* C4: N submissions to one key, all made before the first commit returns,
\* no failures: once the lane has drained exactly one commit+propagate pair
\* has run, for the last submission, and the other N-1 results are
\* Superseded.
C4_SinglePair ==
    \A k \in Keys :
        (Drained(k) /\ OpsOn(k) # {} /\ early[k] /\ NoFailures(k)) =>
            /\ {o \in OpsOn(k) : hist[o].commitCalls > 0} = {LastOn(k)}
            /\ {o \in OpsOn(k) : hist[o].syncCalls > 0} = {LastOn(k)}
            /\ hist[LastOn(k)].commitCalls = 1
            /\ hist[LastOn(k)].syncCalls = 1
            /\ \A o \in OpsOn(k) \ {LastOn(k)} : Superseded(o)

\* C5: latest wins. No failures on a key and its lane drained: the payload
\* of the last successful commit and of the last successful propagate are
\* the payload of the last submission for the key.
C5_LatestWins ==
    \A k \in Keys :
        (Drained(k) /\ OpsOn(k) # {} /\ NoFailures(k)) =>
            /\ store[k].content = operation[LastOn(k)].content
            /\ sandbox[k].content = operation[LastOn(k)].content

\* a lane that took three submissions, superseded one, and drained
C5_Witness ==
    \E k \in Keys :
        /\ Drained(k)
        /\ Cardinality(OpsOn(k)) >= 3
        /\ NoFailures(k)
        /\ \E o \in OpsOn(k) : Superseded(o)
        /\ store[k].content = operation[LastOn(k)].content

\* C6: for an operation resolved with the superseded sentinel neither
\* commitFn nor propagateFn has been invoked, at the supersede or later.
C6_SupersededNeverCommitted ==
    \A o \in Submitted :
        Superseded(o) => hist[o].commitCalls = 0 /\ hist[o].syncCalls = 0

\* an operation was superseded and its lane has since drained
C6_Witness ==
    \E o \in Submitted : Superseded(o) /\ Drained(operation[o].path)

C8_BoundedLane ==
    \A k \in Keys :
        /\ queues[k] = NoQueue => ActiveDrainers(k) = {}
        /\ queues[k] # NoQueue =>
               /\ Len(arrays[queues[k]]) \in {1, 2}
               /\ \E d \in ActiveDrainers(k) :
                      /\ drainers[d].queue = queues[k]
                      /\ drainers[d].item = arrays[queues[k]][1]
        /\ Cardinality({o \in OpsOn(k) : promise[o].state = "pending"}) <= 2
        /\ \A o \in OpsOn(k) :
               promise[o].state = "pending" =>
                   queues[k] # NoQueue /\ o \in Range(arrays[queues[k]])

\* three submissions to one key and still two items in its array
C8_Witness ==
    \E k \in Keys :
        /\ Cardinality(OpsOn(k)) >= 3
        /\ queues[k] # NoQueue
        /\ Len(arrays[queues[k]]) = 2
        /\ \A o \in OpsOn(k) : ~Rejected(o) /\ ~Succeeded(o)

\* C9: an operation for which no commitFn call has succeeded never has
\* propagateFn invoked, has commitFn invoked at most 3 times, and is
\* rejected exactly when the 3rd commitFn call has failed.
C9_CommitAlwaysFails ==
    \A o \in Submitted :
        hist[o].committed = 0 =>
            /\ hist[o].syncCalls = 0
            /\ hist[o].commitCalls <= maxRetries
            /\ ~Succeeded(o)
            /\ Rejected(o) <=> hist[o].commitFails = maxRetries
            /\ Rejected(o) => hist[o].commitCalls = maxRetries

\* an operation rejected after three failed commits
C9_Witness ==
    \E o \in Submitted :
        /\ Rejected(o)
        /\ hist[o].committed = 0
        /\ hist[o].commitCalls = 3
        /\ hist[o].syncCalls = 0

\* the operation succeeded the way the claim describes
SucceededAfterRetries(o) ==
    /\ Succeeded(o)
    /\ hist[o].commitFails < maxRetries
    /\ hist[o].commitCalls = hist[o].commitFails + 1
    /\ hist[o].syncCalls = 1
    /\ promise[o].version = hist[o].committed

\* C10: an operation whose commitFn fails r < 3 times and then succeeds,
\* and whose propagateFn does not fail, is eventually resolved with the
\* version the successful commit returned, after exactly r+1 commitFn
\* calls and exactly one propagateFn call, made after that commit. (The
\* other ways out: it was superseded, propagateFn failed, or commitFn
\* failed 3 times.)
C10_RetryThenSucceed ==
    /\ [](\A o \in Submitted :
             /\ hist[o].syncCalls > 0 => hist[o].committed > 0
             /\ (Succeeded(o) /\ hist[o].syncFails = 0) =>
                    SucceededAfterRetries(o))
    /\ \A o \in Ids :
          (o \in Submitted) ~>
              (o \in Submitted /\
                  (\/ SucceededAfterRetries(o)
                   \/ Superseded(o)
                   \/ hist[o].syncFails > 0
                   \/ hist[o].commitFails >= maxRetries))

\* resolved after two failed commits and a third that succeeded
C10_Witness ==
    \E o \in Submitted :
        /\ SucceededAfterRetries(o)
        /\ hist[o].commitFails = 2
        /\ hist[o].syncFails = 0
        /\ hist[o].commitCalls = 3

\* ---- two-phase ordering ----------------------------------------------------
\* an updateFn call for the item is outstanding
InCommit(o) == \E d \in Ids : drainers[d].pc = "commit" /\ drainers[d].item = o

\* C11: propagateFn is invoked for an operation only when commitFn for it
\* has returned in the same attempt, with the operation's payload and the
\* version that commit returned (the row the store holds meanwhile); an
\* operation resolved as success(version) had a propagateFn call return,
\* made with that same version.
C11_TwoPhase ==
    \A o \in Submitted :
        /\ hist[o].syncCalls =
               hist[o].commitCalls - hist[o].commitFails
                   - (IF InCommit(o) THEN 1 ELSE 0)
        /\ hist[o].syncCalls > 0 =>
               hist[o].syncArgs = [content |-> operation[o].content,
                                   version |-> hist[o].committed]
        /\ \A d \in Ids :
               (drainers[d].pc = "sync" /\ drainers[d].item = o) =>
                   /\ drainers[d].version = hist[o].committed
                   /\ store[drainers[d].path] =
                          [content |-> operation[o].content,
                           version |-> drainers[d].version]
        /\ Succeeded(o) =>
               /\ hist[o].syncCalls > hist[o].syncFails
               /\ promise[o].version = hist[o].committed
               /\ promise[o].version = hist[o].syncArgs.version

\* resolved in a second attempt, after a propagate failure
C11_Witness ==
    \E o \in Submitted :
        /\ Succeeded(o)
        /\ hist[o].syncFails = 1
        /\ hist[o].commitCalls = 2
        /\ promise[o].version = 2

\* C12: the commitFn and propagateFn invoked for an operation are the ones
\* passed in that operation's own queueEdit call.
C12_OwnFunctions ==
    \A o \in Submitted :
        /\ hist[o].commitFns \subseteq {o}
        /\ hist[o].syncFns \subseteq {o}

\* ---- independence of the lanes ---------------------------------------------
\* everything the queue, the store and the callers hold about one path
LaneOf(k) ==
    [queue      |-> queues[k],
     items      |-> IF queues[k] = NoQueue THEN <<>> ELSE arrays[queues[k]],
     processing |-> processing[k],
     drainers   |-> {drainers[d] : d \in ActiveDrainers(k)},
     ops        |-> [o \in OpsOn(k) |-> <<operation[o], promise[o], hist[o]>>],
     store      |-> store[k],
     sandbox    |-> sandbox[k]]

\* the step the drainer is suspended at can be taken
CanComplete(d) ==
    /\ drainers[d].pc = "commit" => ENABLED CommitOk(d)
    /\ drainers[d].pc = "sync" => ENABLED SyncOk(d)
    /\ drainers[d].pc = "backoff" => ENABLED BackoffExpire(d)

\* C13: failure isolation. Whatever the other lanes are doing (retrying, in
\* backoff, rejected), every unsettled operation of a key has a drainer of
\* that key whose pending step can be taken, and no step changes the lanes
\* of two keys: a step of key A leaves the operations, promises, array,
\* flag and drainer of key B as they were.
C13_Isolation ==
    /\ [](\A k \in Keys : \A o \in OpsOn(k) :
             promise[o].state = "pending" =>
                 \E d \in ActiveDrainers(k) : CanComplete(d))
    /\ [][\A k1 \in Keys : \A k2 \in Keys \ {k1} :
             LaneOf(k1)' # LaneOf(k1) => LaneOf(k2)' = LaneOf(k2)]_vars

\* one key is in its second backoff while a later operation on another key
\* has gone through without a retry
C13_Witness ==
    \E o1 \in Submitted : \E o2 \in Submitted :
        /\ o1 < o2
        /\ operation[o1].path # operation[o2].path
        /\ \E d \in Ids : /\ drainers[d].pc = "backoff"
                           /\ drainers[d].item = o1
                           /\ drainers[d].delay = 2000
        /\ Succeeded(o2)
        /\ operation[o2].retries = 0

\* C14: parallelism across keys. A queueEdit call for an idle key starts
\* that key's drainer and its first commitFn call in the same step, whatever
\* the other keys are doing and without touching their drainers; an
\* operation that started its own drainer and met no failure resolves
\* successfully.
C14_Parallel ==
    /\ [][\A k \in Keys :
             (/\ nextId' = nextId + 1
              /\ operation'[nextId].path = k
              /\ queues[k] = NoQueue)
             =>
             /\ drainers'[nextId] =
                    [pc |-> "commit", path |-> k, fn |-> nextId,
                     queue |-> nextId, item |-> nextId, version |-> 0,
                     delay |-> 0]
             /\ hist'[nextId].commitCalls = 1
             /\ \A d \in Ids \ {nextId} : drainers'[d] = drainers[d]]_vars
    /\ [](\A o \in Submitted :
             (/\ o \in hist[o].commitFns
              /\ hist[o].commitFails = 0
              /\ hist[o].syncFails = 0
              /\ Settled(o))
             => Succeeded(o))

\* two keys were in flight together and the one submitted later finished
\* first
C14_Witness ==
    \E o1 \in Submitted : \E o2 \in Submitted :
        /\ o1 < o2
        /\ operation[o1].path # operation[o2].path
        /\ drainers[o1].pc \in {"commit", "sync"}
        /\ drainers[o1].item = o1
        /\ Succeeded(o2)
        /\ o2 \in hist[o2].commitFns
        /\ NoFailures(operation[o1].path)
        /\ NoFailures(operation[o2].path)

\* ---- the terminal error ----------------------------------------------------
\* the rejections a failure of the given phase can end in, for a path
ResultsOf(phase, path) == {TerminalError(path, e) : e \in ThrownBy(phase)}

OtherPhase(phase) == IF phase = "commit" THEN "sync" ELSE "commit"

\* C15: the rejection tells the failing phase: an operation rejected after a
\* last failure in commit (in propagate) carries an error that no rejection
\* after a last failure in propagate (in commit) can carry.
C15_Distinguishable ==
    \A o \in Submitted :
        Rejected(o) =>
            promise[o].error \notin
                ResultsOf(OtherPhase(hist[o].failedIn), operation[o].path)

\* ---- the retry schedule ----------------------------------------------------
\* C16: as documented (PHASE3A_COMPLETE.md:15), an operation the queue gives
\* up on was retried 3 times, after backoff waits of 1s, 2s and 4s: four
\* attempts in all.
C16_DocumentedSchedule ==
    \A o \in Submitted :
        Rejected(o) =>
            /\ hist[o].waits = <<1000, 2000, 4000>>
            /\ hist[o].commitCalls = 4

\* ---- getStatus ---------------------------------------------------------------
\* C17: getStatus is a pure observer: a step that returns a status leaves
\* the maps, the arrays, the operations (retry counters included), the
\* promises and the drainers as they were, and a call that directly follows
\* another call returns the same result.
C17_PureObserver ==
    [][status' # NoStatus =>
          /\ queueVars' = queueVars
          /\ status # NoStatus => status' = status]_vars

\* a status was returned while a drainer sat in a backoff wait
C17_Witness ==
    /\ status # NoStatus
    /\ \E d \in Ids : drainers[d].pc = "backoff"
    /\ status.processingFiles # {}

\* operations of a key that are queued behind the one in flight
WaitingOps(k) ==
    {o \in OpsOn(k) : promise[o].state = "pending" /\ hist[o].commitCalls = 0}

\* operations of a key that are not settled, in flight or waiting
UnsettledOps(k) == {o \in OpsOn(k) : promise[o].state = "pending"}

\* C18 as stated: the result names the keys with a waiting operation, the
\* keys that are draining and the number of waiting (not in-flight)
\* operations.
C18_WaitingOnly ==
    status # NoStatus =>
        /\ status.queuedFiles = {k \in Keys : WaitingOps(k) # {}}
        /\ status.processingFiles = {k \in Keys : ActiveDrainers(k) # {}}
        /\ status.totalPendingOperations =
               Cardinality(UNION {WaitingOps(k) : k \in Keys})

\* C18 as amended: the result names the keys with an unsettled operation,
\* in flight or waiting, the keys that are draining, and the number of
\* unsettled operations, the in-flight ones included.
C18_AllQueued ==
    status # NoStatus =>
        /\ status.queuedFiles = {k \in Keys : UnsettledOps(k) # {}}
        /\ status.processingFiles = {k \in Keys : ActiveDrainers(k) # {}}
        /\ status.totalPendingOperations =
               Cardinality(UNION {UnsettledOps(k) : k \in Keys})

\* a status taken with one operation in flight and one waiting behind it
C18_Witness ==
    /\ status # NoStatus
    /\ status.totalPendingOperations = 2
    /\ Cardinality(status.queuedFiles) = 1
    /\ \E k \in Keys : WaitingOps(k) # {}

\* ---- the life of a lane ------------------------------------------------------
\* C19: in every state, for every key, "the key has an entry in the queues
\* map", "the key's processing flag is true" and "the key has an unsettled
\* operation" are equivalent; an unsettled operation always has an active
\* drainer on its key; and the step that settles the last unsettled
\* operation of a key removes the key's entry.
C19_LaneLifecycle ==
    /\ [](\A k \in Keys :
            /\ (queues[k] # NoQueue) <=> (processing[k] = "true")
            /\ (processing[k] = "true") <=> (UnsettledOps(k) # {})
            /\ UnsettledOps(k) # {} => ActiveDrainers(k) # {})
    /\ [][\A k \in Keys :
              UnsettledOps(k) # {} /\ UnsettledOps(k)' = {} =>
                  /\ queues'[k] = NoQueue
                  /\ processing'[k] = "absent"]_vars

\* a lane that was refilled while its drainer ran has drained and lost its
\* entry, while the other key still has an operation in flight
C19_Witness ==
    \E k \in Keys :
        /\ queues[k] = NoQueue
        /\ \E o1, o2 \in OpsOn(k) : /\ o1 < o2 /\ hist[o2].commitCalls > 0
                                     /\ ~Superseded(o1)
                                     /\ Settled(o1) /\ Settled(o2)
        /\ \E k2 \in Keys \ {k} : UnsettledOps(k2) # {}

\* C20: an operation in flight is never pre-empted. While it is unsettled
\* every drainer of its key works on it, with its own payload, whatever is
\* waiting behind it; a drainer moves to another operation only in the step
\* that makes the one in flight succeed or be rejected; and no operation
\* gets more than maxRetries attempts, so an operation's first commit
\* starts only when every earlier operation of the key is settled.
C20_NoPreemption ==
    /\ [](\A o \in Submitted :
            /\ hist[o].commitCalls <= maxRetries
            /\ promise[o].state = "pending" /\ hist[o].commitCalls > 0 =>
                   /\ ActiveDrainers(operation[o].path) # {}
                   /\ \A d \in ActiveDrainers(operation[o].path) :
                          /\ drainers[d].item = o
                          /\ arrays[drainers[d].queue] # <<>>
                          /\ Head(arrays[drainers[d].queue]) = o
                   /\ operation[o].content = Payload(o)
            /\ hist[o].commitCalls > 0 =>
                   \A e \in OpsOn(operation[o].path) :
                       e < o => Settled(e)
            /\ hist[o].committed > 0 =>
                   hist[o].syncArgs.content = Payload(o))
    /\ [][\A d \in Ids :
              /\ drainers[d].pc # "idle"
              /\ drainers'[d] # drainers[d]
              /\ drainers'[d].item # drainers[d].item
              => /\ promise[drainers[d].item].state = "pending"
                 /\ \/ promise'[drainers[d].item].state = "rejected"
                    \/ /\ promise'[drainers[d].item].state = "fulfilled"
                       /\ promise'[drainers[d].item].version >= 1]_vars

\* an operation is being retried while a newer one waits behind it
C20_Witness ==
    \E d \in Ids :
        /\ drainers[d].pc = "commit"
        /\ hist[drainers[d].item].commitCalls >= 2
        /\ WaitingOps(drainers[d].path) # {}

\* ---- retries -----------------------------------------------------------------
\* C21: one counter per operation counts the failed commitFn calls and the
\* failed propagateFn calls together; it stays in 0..3; the operation is
\* rejected exactly when the failures of both kinds total 3; and commitFn
\* is invoked at most 3 times for an operation.
C21_SharedCounter ==
    \A o \in Submitted :
        /\ operation[o].retries \in 0..maxRetries
        /\ operation[o].retries = hist[o].commitFails + hist[o].syncFails
        /\ Rejected(o) <=> hist[o].commitFails + hist[o].syncFails = 3
        /\ hist[o].commitCalls <= 3
        /\ hist[o].commitCalls + hist[o].syncCalls <=
               2 * maxRetries - hist[o].commitFails

\* an operation rejected after failures of both kinds
C21_Witness ==
    \E o \in Submitted :
        /\ Rejected(o)
        /\ hist[o].commitFails >= 1
        /\ hist[o].syncFails >= 1

\* C22: a retry after a failed propagateFn starts again at the commit
\* phase with the same operation: when a backoff wait ends the drainer
\* invokes commitFn for the same item, and propagateFn has been invoked
\* exactly once for every commitFn call of the operation that returned.
\* An operation whose propagateFn failed 3 times has had 3 successful
\* commits (the store holds its payload until a later operation commits)
\* and is rejected.
C22_RetryFromCommit ==
    /\ [](\A o \in Submitted :
            /\ hist[o].syncCalls =
                   hist[o].commitCalls - hist[o].commitFails
                       - (IF InCommit(o) THEN 1 ELSE 0)
            /\ hist[o].syncFails = maxRetries =>
                   /\ Rejected(o)
                   /\ hist[o].failedIn = "sync"
                   /\ hist[o].commitCalls = 3
                   /\ hist[o].commitFails = 0
                   /\ hist[o].committed >= 3
                   /\ store[operation[o].path].version >= hist[o].committed
                   /\ (\A n \in OpsOn(operation[o].path) :
                           n > o => hist[n].committed = 0)
                      => store[operation[o].path] =
                             [content |-> operation[o].content,
                              version |-> hist[o].committed])
    /\ [][\A d \in Ids :
              drainers[d].pc = "backoff" /\ drainers'[d] # drainers[d] =>
                  /\ drainers'[d].pc = "commit"
                  /\ drainers'[d].item = drainers[d].item
                  /\ hist'[drainers[d].item].commitCalls =
                         hist[drainers[d].item].commitCalls + 1
                  /\ hist'[drainers[d].item].syncCalls =
                         hist[drainers[d].item].syncCalls
                  /\ operation'[drainers[d].item].content =
                         Payload(drainers[d].item)]_vars

\* rejected after three commits that succeeded and three propagations that
\* failed; the store holds the payload at version 3
C22_Witness ==
    \E o \in Submitted :
        /\ Rejected(o)
        /\ hist[o].syncFails = 3
        /\ hist[o].commitCalls = 3
        /\ store[operation[o].path] =
               [content |-> operation[o].content, version |-> 3]
        /\ sandbox[operation[o].path].version = 0

\* C23: the k-th failed attempt of an operation (k = 1, 2) is followed by a
\* wait of baseRetryDelay * 2^(k-1) ms, 1000 then 2000; the 3rd failed
\* attempt is followed by no wait: in that step the operation is rejected
\* and leaves its array, and its drainer goes on to the commit of the next
\* item of the array or, when there is none, becomes idle.
C23_BackoffSchedule ==
    /\ [](\A o \in Submitted :
            /\ hist[o].waits =
                   SubSeq(<<1000, 2000>>, 1,
                          IF operation[o].retries < 2
                          THEN operation[o].retries ELSE 2)
            /\ \A i \in 1..Len(hist[o].waits) :
                   /\ hist[o].waits[i] = baseRetryDelay * 2 ^ (i - 1)
                   /\ i > 1 => hist[o].waits[i] > hist[o].waits[i - 1])
    /\ [](\A d \in Ids :
            drainers[d].pc = "backoff" =>
                /\ operation[drainers[d].item].retries \in {1, 2}
                /\ drainers[d].delay =
                       hist[drainers[d].item].waits[
                           operation[drainers[d].item].retries]
                /\ promise[drainers[d].item].state = "pending")
    /\ [][\A d \in Ids :
              /\ drainers[d].pc \in {"commit", "sync"}
              /\ operation'[drainers[d].item].retries = maxRetries
              /\ operation[drainers[d].item].retries = 2
              => /\ promise'[drainers[d].item].state = "rejected"
                 /\ drainers[d].item \notin Range(arrays'[drainers[d].queue])
                 /\ hist'[drainers[d].item].waits =
                        hist[drainers[d].item].waits
                 /\ IF Len(arrays[drainers[d].queue]) > 1
                    THEN /\ drainers'[d].pc = "commit"
                         /\ drainers'[d].item = arrays[drainers[d].queue][2]
                    ELSE drainers'[d].pc = "idle"]_vars

\* a drainer sits in the second wait of an operation, 2000 ms after one of
\* 1000 ms
C23_Witness ==
    \E d \in Ids :
        /\ drainers[d].pc = "backoff"
        /\ drainers[d].delay = 2000
        /\ hist[drainers[d].item].waits = <<1000, 2000>>

\* C24: when the operation in flight is rejected for exhausted retries
\* while another operation of the key waits behind it, the waiting one is
\* not settled and not dropped in that step: it is at the head of the
\* array, its retry counter is 0 and the drainer has invoked commitFn for
\* it. Its counter counts its own failures only, so it is rejected only
\* after 3 failed attempts of its own.
C24_SuccessorUnharmed ==
    /\ [][\A d \in Ids :
              /\ drainers[d].pc \in {"commit", "sync"}
              /\ promise[drainers[d].item].state = "pending"
              /\ promise'[drainers[d].item].state = "rejected"
              /\ Len(arrays[drainers[d].queue]) > 1
              => LET w == arrays[drainers[d].queue][2] IN
                 /\ promise'[w] = PendingPromise
                 /\ arrays'[drainers[d].queue] = <<w>>
                 /\ operation'[w] = [path |-> drainers[d].path,
                                     content |-> Payload(w), retries |-> 0]
                 /\ drainers'[d].pc = "commit"
                 /\ drainers'[d].item = w
                 /\ hist'[w] = [NoHist EXCEPT !.commitCalls = 1,
                                              !.commitFns = {drainers[d].fn}]
                 /\ queues'[drainers[d].path] = queues[drainers[d].path]
                 /\ processing'[drainers[d].path] = "true"]_vars
    /\ [](\A o \in Submitted :
            /\ hist[o].commitCalls = 0 => operation[o].retries = 0
            /\ operation[o].retries = hist[o].commitFails + hist[o].syncFails
            /\ Rejected(o) <=> operation[o].retries = maxRetries
            /\ Superseded(o) => hist[o].commitCalls = 0)

\* the operation that waited behind a rejected one is in its own third
\* attempt
C24_Witness ==
    \E k \in Keys : \E o1, o2 \in OpsOn(k) :
        /\ o1 < o2
        /\ Rejected(o1)
        /\ hist[o2].commitCalls = 3
        /\ operation[o2].retries = 2
        /\ promise[o2].state = "pending"

\* ---- what the caller of editFile sees ----------------------------------------
\* C25: an editFile call whose promise was resolved returns true, whether
\* the edit was synced or superseded, and its return leaves lastError as
\* it was; a call whose promise was rejected returns false and its return
\* sets lastError to the message made of the path, the attempt count 3 and
\* the message of the value thrown last.
C25_CallerOutcomes ==
    /\ [](\A o \in Submitted :
            /\ calls[o] = "true" => Succeeded(o) \/ Superseded(o)
            /\ calls[o] = "false" => Rejected(o)
            /\ calls[o] \in {"true", "false"} <=>
                   (calls[o] # "awaiting" /\ Settled(o)))
    /\ [][\A o \in Ids :
              calls[o] = "awaiting" /\ calls'[o] # "awaiting" =>
                  /\ Superseded(o) =>
                         calls'[o] = "true" /\ hook'.lastError = hook.lastError
                  /\ Succeeded(o) =>
                         calls'[o] = "true" /\ hook'.lastError = hook.lastError
                  /\ Rejected(o) =>
                         /\ calls'[o] = "false"
                         /\ hook'.lastError =
                                [path |-> operation[o].path,
                                 attempts |-> 3,
                                 cause |-> IF hist[o].failedWith.isError
                                           THEN hist[o].failedWith.message
                                           ELSE "Unknown error"]]_vars

\* of three edits of a file the first returned true after its sync, the
\* second returned true superseded, the third returned false, and the
\* message of the failure is shown
C25_Witness ==
    \E o1, o2, o3 \in Submitted :
        /\ Succeeded(o1) /\ calls[o1] = "true"
        /\ Superseded(o2) /\ calls[o2] = "true"
        /\ Rejected(o3) /\ calls[o3] = "false"
        /\ hook.lastError = promise[o3].error
        /\ hook.lastError.attempts = 3
        /\ hook.pendingEdits = 0

\* ---- the editor's debounce ---------------------------------------------------
\* the onChangeAction calls made with the last value of burst b
CallsFor(b) == {i \in 1..Len(editor.log) : editor.log[i].value = b.last}

C27_FirstInFlight ==
    /\ [][\A k \in Keys :
              /\ nextId' = nextId + 1
              /\ operation'[nextId].path = k
              /\ processing[k] # "true"
              => /\ drainers'[nextId].pc = "commit"
                 /\ drainers'[nextId].item = nextId
                 /\ drainers'[nextId].path = k
                 /\ hist'[nextId].commitCalls = 1
                 /\ nextId \in hist'[nextId].commitFns
                 /\ processing'[k] = "true"
                 /\ arrays'[queues'[k]] = <<nextId>>]_vars
    /\ [][\A k \in Keys :
              /\ nextId' = nextId + 1
              /\ operation'[nextId].path = k
              /\ processing[k] = "true"
              => LET o == Head(arrays[queues[k]]) IN
                 /\ promise'[o] = promise[o]
                 /\ promise[o].state = "pending"
                 /\ arrays'[queues'[k]] = <<o, nextId>>
                 /\ \A d \in ActiveDrainers(k) : drainers'[d] = drainers[d]
                 /\ \A w \in OpsOn(k) :
                        promise'[w] # promise[w] =>
                            /\ hist[w].commitCalls = 0
                            /\ promise'[w].version = SupersededVersion]_vars
    /\ [](\A o \in Submitted :
            o \in hist[o].commitFns => ~Superseded(o))

\* the operation that started the drainer is still in flight after two
\* more submissions for its key, of which the first was superseded
C27_Witness ==
    \E k \in Keys : \E o1, o2, o3 \in OpsOn(k) :
        /\ o1 < o2 /\ o2 < o3
        /\ o1 \in hist[o1].commitFns
        /\ promise[o1].state = "pending"
        /\ hist[o1].commitCalls = 1
        /\ Superseded(o2)
        /\ arrays[queues[k]] = <<o1, o3>>

\* ---- clear() -----------------------------------------------------------------
\* the updateFn and syncFn calls of a key that have not returned
Outstanding(k) == {d \in ActiveDrainers(k) : drainers[d].pc \in {"commit", "sync"}}

\* C28: also with clear() calls a key has at most one running processQueue
\* invocation and at most one outstanding commitFn or propagateFn call,
\* and while a key has a running drainer its map entry and its processing
\* flag stay.
C28_ClearKeepsExclusion ==
    \A k \in Keys :
        /\ Cardinality(ActiveDrainers(k)) <= 1
        /\ Cardinality(Outstanding(k)) <= 1
        /\ \A d \in ActiveDrainers(k) :
               queues[k] = NoQueue \/ queues[k] = drainers[d].queue

\* the unsettled operations a running drainer holds in its array
HeldBy(d) == IF drainers[d].pc = "idle" THEN {} ELSE Range(arrays[drainers[d].queue])

\* C29: with clear() calls too, every unsettled operation, in flight or
\* waiting, is in the array a running drainer holds, whether or not the
\* map still has that array, and is eventually settled when every
\* commitFn and propagateFn call returns or throws and every backoff
\* timer fires.
C29_ClearedStillSettled ==
    /\ [](\A o \in Submitted :
            promise[o].state = "pending" =>
                \E d \in Ids : o \in HeldBy(d) /\ CanComplete(d))
    /\ \A o \in Ids :
          (o \in Submitted /\ promise[o].state = "pending") ~>
              (o \in Submitted /\ promise[o].state # "pending")

\* the first operation was in flight when clear() was called: the second
\* one, submitted after the call, was committed before it, and both have
\* succeeded
C29_Witness ==
    \E k \in Keys : \E o1, o2 \in OpsOn(k) :
        /\ o1 < o2
        /\ Succeeded(o1) /\ Succeeded(o2)
        /\ hist[o2].committed < hist[o1].committed

\* ---- versions ------------------------------------------------------------------
\* C30: with updateFile as the commit function and the queue as the only
\* writer, every propagateFn call for a key is
\* made with a version greater than the version of every earlier
\* propagateFn call for that key, and every write to the sandbox replaces
\* a version by a greater one.
C30_VersionsIncrease ==
    /\ [][\A d \in Ids :
              drainers[d].pc = "commit" /\ drainers'[d].pc = "sync" =>
                  /\ hist'[drainers[d].item].syncArgs.version =
                         drainers'[d].version
                  /\ \A o \in OpsOn(drainers[d].path) :
                         hist[o].syncCalls > 0 =>
                             hist[o].syncArgs.version < drainers'[d].version
                  /\ sandbox[drainers[d].path].version < drainers'[d].version
                  /\ store'[drainers[d].path].version = drainers'[d].version]_vars
    /\ [][\A k \in Keys :
              sandbox'[k] # sandbox[k] =>
                  sandbox'[k].version > sandbox[k].version]_vars
    /\ [](\A k \in Keys : sandbox[k].version <= store[k].version)

\* ---- the status of the useFileEdit hook ---------------------------------------
\* the editFile calls that passed the sandbox test and have not returned
AwaitingCalls == {o \in Ids : calls[o] = "awaiting"}

\* the editFile calls that have returned
ReturnedCalls == {o \in Ids : calls[o] \in {"true", "false"}}

\* C31: in every state, so after every status update of editFile,
\* pendingEdits is not negative, isEditing is true exactly when
\* pendingEdits > 0, and pendingEdits is the number of editFile calls that
\* were enqueued and have not yet returned; once every enqueued call has
\* returned, whether synced, superseded or failed, pendingEdits is 0 and
\* isEditing is false. Every return of an enqueued call lowers
\* pendingEdits by exactly one.
C31_StatusBookkeeping ==
    /\ [](/\ hook.pendingEdits >= 0
          /\ hook.isEditing <=> hook.pendingEdits > 0
          /\ hook.pendingEdits = Cardinality(AwaitingCalls)
          /\ AwaitingCalls \cup ReturnedCalls = Submitted
          /\ ReturnedCalls = Submitted =>
                 hook.pendingEdits = 0 /\ ~hook.isEditing)
    /\ [][\A o \in Ids :
              calls[o] = "awaiting" /\ calls'[o] # "awaiting" =>
                  hook'.pendingEdits = hook.pendingEdits - 1]_vars

\* of three edits the first has failed and its call has returned false,
\* the second was superseded by the third and its call has not resumed
\* yet, the third is waiting: two edits are pending
C31_Witness ==
    \E o1, o2, o3 \in Submitted :
        /\ Rejected(o1) /\ calls[o1] = "false"
        /\ Superseded(o2) /\ calls[o2] = "awaiting"
        /\ promise[o3].state = "pending" /\ calls[o3] = "awaiting"
        /\ hook.pendingEdits = 2
        /\ hook.isEditing

\* ---- editFile without a sandbox -----------------------------------------------
\* C32: an editFile call made while the hook has no sandboxId returns
\* false and sets lastError to the no-sandbox message; it changes nothing
\* else: pendingEdits, isEditing and the other editFile calls stay as they
\* are, nothing is enqueued, no commitFn or propagateFn call is made and
\* the queue, the store and the sandbox are untouched.
C32_NoSandboxNoEffect ==
    [][refused' # refused =>
              /\ sandboxId = NoSandboxId
              /\ refused' = Append(refused, FALSE)
              /\ hook'.lastError = NoSandboxMessage
              /\ hook'.pendingEdits = hook.pendingEdits
              /\ hook'.isEditing = hook.isEditing
              /\ calls' = calls
              /\ nextId' = nextId /\ operation' = operation
              /\ promise' = promise
              /\ queues' = queues /\ arrays' = arrays
              /\ processing' = processing /\ drainers' = drainers
              /\ hist' = hist
              /\ store' = store /\ sandbox' = sandbox]_vars

\* the sandbox went away while an edit was pending, and an editFile call
\* was refused: the message is shown and the edit is still pending
C32_Witness ==
    /\ sandboxId = NoSandboxId
    /\ refused = <<FALSE>>
    /\ hook.lastError = NoSandboxMessage
    /\ hook.pendingEdits = 1 /\ hook.isEditing
    /\ \E o \in Submitted : calls[o] = "awaiting" /\ drainers[o].pc = "sync"

====
